---- MODULE Spec2Model ----
(***************************************************************************)
(* Client-side control logic of the typst-lsp VS Code extension            *)
(* (editors/vscode/src/extension.ts and its earlier revisions):            *)
(* server executable resolution, the language-client session lifecycle,    *)
(* configuration propagation and the export / show-pdf / clear-cache       *)
(* commands.                                                               *)
(*                                                                         *)
(* Strings that the code builds with template literals are modelled as     *)
(* sequences of tokens, so that "the message contains X" is decidable.     *)
(* JavaScript's null / undefined for a value of type T are modelled as the *)
(* empty sequence and a present value v as <<v>> where the code tests for  *)
(* them.                                                                   *)
(***************************************************************************)
EXTENDS Integers, Sequences, FiniteSets, TLC

VARIABLES
    config,       \* workspace.getConfiguration("typst-lsp")
    platform,     \* process.platform
    spawnEnv,     \* what child_process.spawnSync(path) does, per path
    probeLog,     \* the spawnSync calls made so far, in order
    resolution,   \* outcome of the last getServer call
    activation,   \* the promise returned by activate()
    client,       \* the module-level `client`
    sessionState, \* state of the LanguageClient instance
    launches,     \* server processes launched so far
    registered,   \* command ids registered with the host
    listening,    \* whether the onDidChangeConfiguration listener is subscribed
    shown,        \* window.showErrorMessage calls
    channel,      \* messages sent to the server, in send order
    calls,        \* command invocations, each an async function call
    activeEditor, \* window.activeTextEditor's document, or NoEditor
    opened,       \* vscode.open calls
    edits,        \* configuration-change events so far
    callLimit,    \* how many command invocations the user makes in this run
    processEnv,   \* process.env of the extension host
    serverEnv     \* run.options.env handed over for the server process, if any

locatorVars == <<config, platform, spawnEnv, probeLog, resolution>>

sessionVars == <<activation, client, sessionState, launches, registered,
                 listening, shown>>

commandVars == <<channel, calls, activeEditor, opened, edits>>

vars == <<locatorVars, sessionVars, commandVars, callLimit, processEnv, serverEnv>>

----------------------------------------------------------------------------
(* Bounds *)

\* Largest exit status a probed process returns.
MaxExitStatus == 1

\* Command invocations in one run.
MaxCalls == 1

\* Command invocations in a run of overlapping invocations.
MaxOverlap == 2

\* Configuration-change events in one run.
MaxEdits == 1

\* Characters after the scheme in the identifier of a source document.
MaxNameLen == 3

----------------------------------------------------------------------------
(* Values *)

Undefined == "<undefined>"
Null == "<null>"
EmptyString == ""

\* Non-empty values a user may give typst-lsp.serverPath.
OverridePaths == {"/opt/custom/typst-lsp", "typst-lsp"}

ServerPathValues == {Undefined, Null, EmptyString} \cup OverridePaths

Platforms == {"linux", "win32"}

\* __dirname of the compiled extension.
DirName == "/ext/out"

Range(s) == {s[i] : i \in 1..Len(s)}

\* The results of child_process.spawnSync(path): either it throws, or it
\* returns {status, error}; status is null when the process did not exit
\* normally (spawn failure, killed by a signal).
SpawnResults ==
    { [thrown |-> <<>>, status |-> <<s>>, error |-> <<>>] : s \in 0..MaxExitStatus }
    \cup { [thrown |-> <<>>, status |-> <<>>, error |-> <<"spawnSync ENOENT">>],
           [thrown |-> <<>>, status |-> <<>>, error |-> <<>>],
           [thrown |-> <<"Error", "The argument 'file' is invalid">>,
            status |-> <<>>, error |-> <<>>],
           [thrown |-> <<"NonError", "oops">>,
            status |-> <<>>, error |-> <<>>] }

----------------------------------------------------------------------------
(* ServerLocator: getServer / validateServer *)

\* Array.prototype.join(sep) over token sequences.
RECURSIVE Join(_, _)
Join(parts, sep) ==
    IF Len(parts) = 0 THEN <<>>
    ELSE IF Len(parts) = 1 THEN parts[1]
    ELSE parts[1] \o sep \o Join(Tail(parts), sep)

\* Array.prototype.flat() of an array of arrays; each element of the result is a
\* token sequence (one string of the code).
RECURSIVE Flat(_)
Flat(arrays) ==
    IF Len(arrays) = 0 THEN <<>>
    ELSE arrays[1] \o Flat(Tail(arrays))

BinaryName(plat) == "typst-lsp" \o (IF plat = "win32" THEN ".exe" ELSE "")

BundledPath(plat) == DirName \o "/" \o BinaryName(plat)

\* JSON.stringify of a string value.
JSONStringify(v) == "\"" \o v \o "\""

\* A falsy test of the status (!result.status), which a null status passes.
StatusOkFalsy(result) == result.status \in {<<>>, <<0>>}

\* result.status === 0
StatusOk(result) == result.status = <<0>>

\* The diagnostic of validateServer for a probe that returned without status 0.
LaunchFailure(path, result) ==
    LET statusMessage ==
            IF result.status # <<>>
            THEN << <<"return status: ", ToString(result.status[1])>> >>
            ELSE <<>>
        errorMessage ==
            IF result.error # <<>>
            THEN << <<"error: ", result.error[1]>> >>
            ELSE <<>>
        messages == <<statusMessage, errorMessage>>
        messageSuffix ==
            IF Len(messages) # 0
            THEN <<":\n\t">> \o Join(Flat(messages), <<"\n\t">>)
            ELSE <<>>
    IN <<"Failed to launch '", path, "'">> \o messageSuffix

validateServer(path, env) ==
    LET result == env[path] IN
    IF result.thrown # <<>>
    THEN IF result.thrown[1] = "Error"
         THEN [valid |-> FALSE,
               message |-> <<"Failed to launch '", path, "': ", result.thrown[2]>>]
         ELSE [valid |-> FALSE,
               message |-> <<"Failed to launch '", path, "': ",
                             JSONStringify(result.thrown[2])>>]
    ELSE IF StatusOk(result)
    THEN [valid |-> TRUE, message |-> <<>>]
    ELSE [valid |-> FALSE, message |-> LaunchFailure(path, result)]

\* One spawnSync probe made by getServer and what validateServer made of it.
Probe(source, path, validation) ==
    [source |-> source, path |-> path,
     valid |-> validation.valid, message |-> validation.message]

Returned(path, probes) ==
    [threw |-> FALSE, path |-> path, message |-> <<>>, probes |-> probes]

Thrown(message, probes) ==
    [threw |-> TRUE, path |-> "", message |-> message, probes |-> probes]

\* The test that guards the override branch of getServer.
HasOverride(pathInConfig) ==
    pathInConfig # Undefined /\ pathInConfig # Null /\ pathInConfig # EmptyString

\* The error getServer throws for an override that does not validate.
OverrideError(pathInConfig, validation) ==
    <<"typst-lsp.serverPath (", pathInConfig,
      ") does not point to a valid typst-lsp binary:\n">> \o validation.message

\* The error getServer throws when neither default candidate validates.
DefaultErrorLast(bundledValidation, binaryValidation) ==
    <<"Could not find a valid typst-lsp binary.\n">> \o binaryValidation.message

DefaultError(bundledValidation, binaryValidation) ==
    <<"Could not find a valid typst-lsp binary.\n", "Bundled: ">>
    \o bundledValidation.message
    \o <<"\n", "In PATH: ">>
    \o binaryValidation.message

\* getServer without an override: both candidates are probed up front.
ResolveDefaultEager(plat, env) ==
    LET binaryName == BinaryName(plat)
        bundledPath == BundledPath(plat)
        bundledValidation == validateServer(bundledPath, env)
        binaryValidation == validateServer(binaryName, env)
        two == <<Probe("Bundled", bundledPath, bundledValidation),
                 Probe("OnSearchPath", binaryName, binaryValidation)>>
    IN IF bundledValidation.valid THEN Returned(bundledPath, two)
       ELSE IF binaryValidation.valid THEN Returned(binaryName, two)
       ELSE Thrown(DefaultError(bundledValidation, binaryValidation), two)

\* getServer without an override: the bundled path is the only candidate.
ResolveDefaultBundledOnly(plat, env) ==
    LET bundledPath == BundledPath(plat)
        bundledValidation == validateServer(bundledPath, env)
        one == <<Probe("Bundled", bundledPath, bundledValidation)>>
    IN IF bundledValidation.valid THEN Returned(bundledPath, one)
       ELSE Thrown(<<"Could not find a valid typst-lsp binary.\n", "Bundled: ">>
                   \o bundledValidation.message, one)

\* getServer without an override: the bundled path, then the bare name.
ResolveDefault(plat, env) ==
    LET binaryName == BinaryName(plat)
        bundledPath == BundledPath(plat)
        bundledValidation == validateServer(bundledPath, env)
        binaryValidation == validateServer(binaryName, env)
        one == <<Probe("Bundled", bundledPath, bundledValidation)>>
        two == one \o <<Probe("OnSearchPath", binaryName, binaryValidation)>>
    IN IF bundledValidation.valid
       THEN Returned(bundledPath, one)
       ELSE IF binaryValidation.valid
       THEN Returned(binaryName, two)
       ELSE Thrown(DefaultError(bundledValidation, binaryValidation), two)

\* An override branch that probes the override once more before returning it.
ResolveOverrideReprobing(pathInConfig, env) ==
    LET validation == validateServer(pathInConfig, env)
        probe == Probe("UserConfigured", pathInConfig, validation)
    IN IF ~validation.valid
       THEN Thrown(OverrideError(pathInConfig, validation), <<probe>>)
       ELSE Returned(pathInConfig, <<probe, probe>>)

\* getServer with an override: the override is the only candidate.
ResolveOverride(pathInConfig, env) ==
    LET validation == validateServer(pathInConfig, env)
        probes == <<Probe("UserConfigured", pathInConfig, validation)>>
    IN IF ~validation.valid
       THEN Thrown(OverrideError(pathInConfig, validation), probes)
       ELSE Returned(pathInConfig, probes)

\* getServer that falls back to the default candidates when the override does
\* not validate.
getServerFallThrough(conf, plat, env) ==
    LET pathInConfig == conf.serverPath IN
    IF HasOverride(pathInConfig)
    THEN LET first == ResolveOverride(pathInConfig, env)
             rest == ResolveDefault(plat, env)
         IN IF first.threw
            THEN [rest EXCEPT !.probes = first.probes \o @]
            ELSE first
    ELSE ResolveDefault(plat, env)

\* getServer that does not read the override.
getServerNoOverride(conf, plat, env) == ResolveDefault(plat, env)

\* getServer whose override test lets the empty string through: spawnSync("")
\* throws, and the empty override is reported as an invalid one.
getServerEmptyOverride(conf, plat, env) ==
    LET pathInConfig == conf.serverPath
        validation ==
            [valid |-> FALSE,
             message |-> <<"Failed to launch '", pathInConfig, "': ",
                           "The argument 'file' cannot be empty">>]
    IN IF pathInConfig = EmptyString
       THEN Thrown(OverrideError(pathInConfig, validation),
                   <<Probe("UserConfigured", pathInConfig, validation)>>)
       ELSE IF HasOverride(pathInConfig)
       THEN ResolveOverride(pathInConfig, env)
       ELSE ResolveDefault(plat, env)

getServer(conf, plat, env) ==
    LET pathInConfig == conf.serverPath IN
    IF HasOverride(pathInConfig)
    THEN ResolveOverride(pathInConfig, env)
    ELSE ResolveDefault(plat, env)

----------------------------------------------------------------------------
(* Documents.  A document identifier (uri.toString()) is a sequence of      *)
(* characters, so that the artifact name is computed as the code does it.  *)

NoEditor == <<>>

DocA == <<"f", ":", "/", "w", "/", "a", ".", "t", "y", "p">>
DocB == <<"f", ":", "/", "w", "/", "b", ".", "t", "y", "p">>

Docs == {DocA, DocB}

\* String.prototype.lastIndexOf(ch): 0-based, -1 when absent.
LastIndexOf(str, ch) ==
    LET hits == {i \in 1..Len(str) : str[i] = ch}
    IN IF hits = {} THEN -1
       ELSE (CHOOSE i \in hits : \A j \in hits : j <= i) - 1

\* String.prototype.slice(0, n): a negative n counts from the end.
Slice0(str, n) ==
    LET end == IF n < 0
               THEN (IF Len(str) + n < 0 THEN 0 ELSE Len(str) + n)
               ELSE (IF n > Len(str) THEN Len(str) ELSE n)
    IN SubSeq(str, 1, end)

\* The characters a document identifier is made of after its scheme: a letter,
\* the extension separator and the path separator.
PathChars == {"a", ".", "/"}

Scheme == <<"f", ":", "/">>

\* The identifiers of the documents an editor may show: any path under the
\* scheme that does not end in a path separator; among them names with an
\* extension ("a.a"), without one ("a", "aa") and without one in a directory
\* whose name has a dot ("./a").
SourceIdentifiers ==
    {Scheme \o name : name \in
        {n \in UNION {[1..len -> PathChars] : len \in 1..MaxNameLen} :
            n[Len(n)] # "/"}}

\* pdf_uri of commandShowPdf.
PdfUri(uri) == Slice0(uri, LastIndexOf(uri, ".")) \o <<".", "p", "d", "f">>

----------------------------------------------------------------------------
(* ClientSession: the LanguageClient instance.  Its implementation is the   *)
(* client library, outside the repository's sources; it is modelled from   *)
(* the specification's section 4.2.                                        *)

SessionStates == {"Stopped", "Starting", "Running", "Stopping"}

\* start(): Stopped -> Starting, launching the process; otherwise it fails fast.
SessionStart(state) ==
    IF state = "Stopped"
    THEN [state |-> "Starting", launched |-> 1, error |-> FALSE]
    ELSE [state |-> state, launched |-> 0, error |-> TRUE]

\* stop(): Running -> Stopping; a no-op on a Stopped session; no edge leaves
\* Starting or Stopping on stop().
SessionStop(state) ==
    IF state = "Running" THEN "Stopping" ELSE state

\* A session that puts the message on the channel in whatever state it is.
SessionSendAny(state) == "sent"

\* sendRequest / sendNotification are well-defined only while Running; otherwise
\* they fail with a "no active session" condition.
SessionSend(state) ==
    IF state = "Running" THEN "sent" ELSE "rejected"

----------------------------------------------------------------------------
(* Activation and deactivation *)

Commands == {"exportCurrentPdf", "showPdf", "clearCache"}

\* An environment is a JavaScript object: a function from variable names to
\* their values.  {} is the function with no name.
EmptyObject == [name \in {} |-> ""]

\* Object.assign(target, source): the properties of source are written to
\* target, over a property of the same name.
ObjectAssign(target, source) ==
    [name \in DOMAIN target \cup DOMAIN source |->
        IF name \in DOMAIN source THEN source[name] ELSE target[name]]

\* { RUST_BACKTRACE: "1" }
DiagnosticOverride == [RUST_BACKTRACE |-> "1"]

\* An environment that holds the diagnostic override and nothing of the
\* parent's.
ServerEnvOverrideOnly(env) == DiagnosticOverride

\* run.options.env of startClient:
\* Object.assign({}, process.env, { RUST_BACKTRACE: "1" })
ServerEnv(env) ==
    ObjectAssign(ObjectAssign(EmptyObject, env), DiagnosticOverride)

\* An error message that leaves out the error it reports.
ActivationErrorBare(message) == <<"Failed to activate typst-lsp">>

\* `Failed to activate typst-lsp: ${e}`
ActivationError(message) ==
    <<"Failed to activate typst-lsp: ", "Error: ">> \o message

LaunchError == <<"Launching server failed">>

\* The command handlers registered once getServer has returned or thrown.
RegistrationsAlways(threw) == Commands

Registrations(threw) == IF threw THEN {} ELSE Commands

\* activate(): the synchronous part of startClient, up to and including the call
\* of client.start(); a throw of getServer rejects startClient's promise, and the
\* catch handler shows the error and rethrows.
Activate ==
    /\ activation = "none"
    /\ LET res == getServer(config, platform, spawnEnv) IN
       /\ resolution' = res
       /\ probeLog' = probeLog \o res.probes
       /\ IF res.threw
          THEN /\ activation' = "rejected"
               /\ shown' = Append(shown, ActivationError(res.message))
               /\ registered' = Registrations(res.threw)
               /\ UNCHANGED <<client, sessionState, launches, listening, serverEnv>>
          ELSE LET started == SessionStart("Stopped") IN
               /\ client' = "client"
               /\ serverEnv' = <<ServerEnv(processEnv)>>
               /\ registered' = Registrations(res.threw)
               /\ listening' = TRUE
               /\ sessionState' = started.state
               /\ launches' = launches + started.launched
               /\ activation' = "pending"
               /\ UNCHANGED shown
    /\ UNCHANGED <<config, platform, spawnEnv, commandVars>>
    /\ UNCHANGED <<callLimit, processEnv>>

\* client.start() resolves: the channel to the server is established.
ChannelEstablished ==
    /\ client = "client"
    /\ sessionState = "Starting"
    /\ sessionState' = "Running"
    /\ activation' = "resolved"
    /\ UNCHANGED <<locatorVars, client, launches, registered, listening, shown,
                   commandVars>>
    /\ UNCHANGED <<callLimit, processEnv, serverEnv>>

\* A catch handler that starts the session once more when the launch failed.
LaunchFailsRetry ==
    /\ client = "client"
    /\ sessionState = "Starting"
    /\ launches' = launches + 1
    /\ shown' = Append(shown, ActivationError(LaunchError))
    /\ UNCHANGED <<locatorVars, activation, client, sessionState, registered,
                   listening, commandVars>>
    /\ UNCHANGED <<callLimit, processEnv, serverEnv>>

\* client.start() rejects: the session is Stopped again, activate's catch handler
\* shows the error and rethrows.
LaunchFails ==
    /\ client = "client"
    /\ sessionState = "Starting"
    /\ sessionState' = "Stopped"
    /\ activation' = "rejected"
    /\ shown' = Append(shown, ActivationError(LaunchError))
    /\ UNCHANGED <<locatorVars, client, launches, registered, listening,
                   commandVars>>
    /\ UNCHANGED <<callLimit, processEnv, serverEnv>>

\* deactivate() that calls client.stop() without the optional chaining: the call
\* on an undefined client throws a TypeError.
DeactivateOutcomeUnguarded(cl, state) ==
    IF cl = "undefined"
    THEN [threw |-> TRUE, state |-> state]
    ELSE [threw |-> FALSE, state |-> SessionStop(state)]

\* deactivate() that tears the session down at once instead of asking it to
\* stop.
DeactivateOutcomeDispose(cl, state) ==
    IF cl = "undefined"
    THEN [threw |-> FALSE, state |-> state]
    ELSE [threw |-> FALSE, state |-> "Stopped"]

\* What deactivate() does when it finds the client `cl` with its session in
\* `state`: client?.stop() returns undefined on an undefined client and calls
\* stop() otherwise.
DeactivateOutcome(cl, state) ==
    IF cl = "undefined"
    THEN [threw |-> FALSE, state |-> state]
    ELSE [threw |-> FALSE, state |-> SessionStop(state)]

\* A deactivate() that also clears the module-level reference.
DeactivateClearing ==
    /\ activation # "none"
    /\ ~DeactivateOutcome(client, sessionState).threw
    /\ sessionState' = DeactivateOutcome(client, sessionState).state
    /\ client' = "undefined"
    /\ UNCHANGED <<locatorVars, activation, launches, registered, listening,
                   shown, commandVars>>
    /\ UNCHANGED <<callLimit, processEnv, serverEnv>>

\* deactivate(): client?.stop()
Deactivate ==
    /\ activation # "none"
    /\ ~DeactivateOutcome(client, sessionState).threw
    /\ sessionState' = DeactivateOutcome(client, sessionState).state
    /\ UNCHANGED <<locatorVars, activation, client, launches, registered,
                   listening, shown, commandVars>>
    /\ UNCHANGED <<callLimit, processEnv, serverEnv>>

\* A server process that does not exit after stop().
ProcessExitedNever ==
    /\ sessionState = "Stopping"
    /\ UNCHANGED vars

\* The server process has exited after stop().
ProcessExited ==
    /\ sessionState = "Stopping"
    /\ sessionState' = "Stopped"
    /\ UNCHANGED <<locatorVars, activation, client, launches, registered,
                   listening, shown, commandVars>>
    /\ UNCHANGED <<callLimit, processEnv, serverEnv>>

----------------------------------------------------------------------------
(* Commands *)

ExportCommand == "typst-lsp.doPdfExport"

\* The command name of commandExportCurrentPdf left in commandClearCache.
ClearCacheCommandCopied == "typst-lsp.doPdfExport"

ClearCacheCommand == "typst-lsp.doClearCache"

Request(command, uri, call) ==
    [kind |-> "request", method |-> "workspace/executeCommand",
     command |-> command, arguments |-> <<uri>>, settings |-> <<>>, call |-> call]

Notification(settings) ==
    [kind |-> "notification", method |-> "workspace/didChangeConfiguration",
     command |-> "", arguments |-> <<>>, settings |-> <<settings>>, call |-> 0]

\* A send that is dropped without an error unless the session is Running.
SendViaDropping(cl, state) ==
    IF cl = "undefined" \/ state # "Running" THEN "skipped" ELSE "sent"

\* client?.sendRequest(...) / client?.sendNotification(...): nothing happens on
\* an undefined client.
SendVia(cl, state) ==
    IF cl = "undefined" THEN "skipped" ELSE SessionSend(state)

\* A command body without the test for an undefined active editor.
SendStepUnguarded(editor, cl, state) ==
    [kind |-> SendVia(cl, state), uri |-> editor]

\* The body of commandExportCurrentPdf and of commandClearCache up to their
\* await: the editor is read when the function is called.
SendStep(editor, cl, state) ==
    IF editor = NoEditor
    THEN [kind |-> "noEditor", uri |-> NoEditor]
    ELSE [kind |-> SendVia(cl, state), uri |-> editor]

\* One invocation of a command handler: the document it read from the active
\* editor when it was called, where it is suspended, how the export step of
\* show-pdf ended, how its vscode.open ended, and how the invocation completed.
NewCall(cmd, pc, uri) ==
    [cmd |-> cmd, pc |-> pc, uri |-> uri, exportResult |-> "none",
     openResult |-> "none", result |-> "pending"]

\* vscode.open with ViewColumn.Active: the viewer replaces the source editor.
OpenActionActive(uri, call) == [uri |-> uri, column |-> "Active", call |-> call]

\* commands.executeCommand("vscode.open", pdf_uri, ViewColumn.Beside)
OpenAction(uri, call) == [uri |-> uri, column |-> "Beside", call |-> call]

\* What an awaited sendRequest leaves of a call that has nothing else to do.
AfterSend(call, step) ==
    IF step.kind \in {"noEditor", "skipped"}
    THEN [call EXCEPT !.pc = "done", !.result = "ok"]
    ELSE IF step.kind = "rejected"
    THEN [call EXCEPT !.pc = "done", !.result = "failed"]
    ELSE [call EXCEPT !.pc = "awaitReply"]

\* A handler that sends nothing while an earlier request for the same document
\* is awaiting its reply.
InvokeSimpleDeduplicating(cmd, command) ==
    /\ cmd \in registered
    /\ Len(calls) < callLimit
    /\ LET step == SendStep(activeEditor, client, sessionState)
           id == Len(calls) + 1
           pendingSame == \E j \in 1..Len(calls) :
                             /\ calls[j].pc \in {"awaitReply", "awaitExport"}
                             /\ calls[j].uri = step.uri
       IN IF step.kind = "sent" /\ pendingSame
          THEN /\ calls' = Append(calls, [NewCall(cmd, "done", step.uri)
                                              EXCEPT !.result = "ok"])
               /\ channel' = channel
          ELSE /\ calls' = Append(calls,
                      AfterSend(NewCall(cmd, "start", step.uri), step))
               /\ channel' = IF step.kind = "sent"
                             THEN Append(channel, Request(command, step.uri, id))
                             ELSE channel
    /\ UNCHANGED <<locatorVars, sessionVars, activeEditor, opened, edits>>
    /\ UNCHANGED <<callLimit, processEnv, serverEnv>>

\* commandExportCurrentPdf / commandClearCache, invoked by the host.
InvokeSimple(cmd, command) ==
    /\ cmd \in registered
    /\ Len(calls) < callLimit
    /\ LET step == SendStep(activeEditor, client, sessionState)
           id == Len(calls) + 1
       IN /\ calls' = Append(calls, AfterSend(NewCall(cmd, "start", step.uri), step))
          /\ channel' = IF step.kind = "sent"
                        THEN Append(channel, Request(command, step.uri, id))
                        ELSE channel
    /\ UNCHANGED <<locatorVars, sessionVars, activeEditor, opened, edits>>
    /\ UNCHANGED <<callLimit, processEnv, serverEnv>>

InvokeExport == InvokeSimple("exportCurrentPdf", ExportCommand)

InvokeClearCache == InvokeSimple("clearCache", ClearCacheCommand)

\* A handler that sends its request again when the server answers with an
\* error.
ReplyRetry(i, ok) ==
    /\ calls[i].pc = "awaitReply"
    /\ IF ok
       THEN /\ calls' = [calls EXCEPT ![i].pc = "done", ![i].result = "ok"]
            /\ UNCHANGED channel
       ELSE /\ calls' = calls
            /\ channel' = Append(channel, channel[CHOOSE k \in 1..Len(channel) :
                                                     channel[k].call = i])
    /\ UNCHANGED <<locatorVars, sessionVars, activeEditor, opened, edits>>
    /\ UNCHANGED <<callLimit, processEnv, serverEnv>>

\* A handler that gives up the session when the server answers with an error.
ReplyStopsSession(i, ok) ==
    /\ calls[i].pc = "awaitReply"
    /\ calls' = [calls EXCEPT ![i].pc = "done",
                              ![i].result = IF ok THEN "ok" ELSE "failed"]
    /\ sessionState' = IF ok THEN sessionState ELSE "Stopped"
    /\ UNCHANGED <<locatorVars, activation, client, launches, registered,
                   listening, shown, channel, activeEditor, opened, edits>>
    /\ UNCHANGED <<callLimit, processEnv, serverEnv>>

\* The server's reply to the request of call i (a result or an error).
Reply(i, ok) ==
    /\ calls[i].pc = "awaitReply"
    /\ calls' = [calls EXCEPT ![i].pc = "done",
                              ![i].result = IF ok THEN "ok" ELSE "failed"]
    /\ UNCHANGED <<locatorVars, sessionVars, channel, activeEditor, opened, edits>>
    /\ UNCHANGED <<callLimit, processEnv, serverEnv>>

\* commandShowPdf up to its first await (workspace.fs.stat).
InvokeShowPdf ==
    /\ "showPdf" \in registered
    /\ Len(calls) < callLimit
    /\ calls' = Append(calls,
           IF activeEditor = NoEditor
           THEN [NewCall("showPdf", "done", NoEditor) EXCEPT !.result = "ok"]
           ELSE NewCall("showPdf", "stat", activeEditor))
    /\ UNCHANGED <<locatorVars, sessionVars, channel, activeEditor, opened, edits>>
    /\ UNCHANGED <<callLimit, processEnv, serverEnv>>

\* The finally block: vscode.open is called for pdf_uri.
WithOpen(call) == [call EXCEPT !.pc = "awaitOpen"]

\* An export step without the finally block: a send that is rejected ends the
\* invocation before vscode.open is called.
ShowPdfExportNoFinally(call, step) ==
    IF step.kind = "sent"
    THEN [call EXCEPT !.pc = "awaitExport", !.exportResult = "pending"]
    ELSE IF step.kind = "rejected"
    THEN [call EXCEPT !.pc = "done", !.exportResult = "failed",
                      !.result = "failed"]
    ELSE IF step.kind = "skipped"
    THEN WithOpen([call EXCEPT !.exportResult = "ok"])
    ELSE WithOpen([call EXCEPT !.exportResult = "noEditor"])

\* An export step that does not await commandExportCurrentPdf(): the finally
\* block runs while the request is pending.
ShowPdfExportNoAwait(call, step) ==
    IF step.kind = "sent"
    THEN WithOpen([call EXCEPT !.exportResult = "pending"])
    ELSE IF step.kind = "rejected"
    THEN WithOpen([call EXCEPT !.exportResult = "failed"])
    ELSE IF step.kind = "skipped"
    THEN WithOpen([call EXCEPT !.exportResult = "ok"])
    ELSE WithOpen([call EXCEPT !.exportResult = "noEditor"])

\* The export step of commandShowPdf: commandExportCurrentPdf() is called in
\* the catch block and reads window.activeTextEditor at that moment.
ShowPdfExport(call, step) ==
    IF step.kind = "sent"
    THEN [call EXCEPT !.pc = "awaitExport", !.exportResult = "pending"]
    ELSE IF step.kind = "rejected"
    THEN WithOpen([call EXCEPT !.exportResult = "failed"])
    ELSE IF step.kind = "skipped"
    THEN WithOpen([call EXCEPT !.exportResult = "ok"])
    ELSE WithOpen([call EXCEPT !.exportResult = "noEditor"])

\* workspace.fs.stat(pdf_uri) settles for call i: it resolves when the artifact
\* exists and rejects when it does not.
StatDone(i, exists) ==
    /\ calls[i].pc = "stat"
    /\ IF exists
       THEN /\ calls' = [calls EXCEPT ![i] = WithOpen(@)]
            /\ opened' = Append(opened, OpenAction(PdfUri(calls[i].uri), i))
            /\ UNCHANGED channel
       ELSE LET step == SendStep(activeEditor, client, sessionState)
                next == ShowPdfExport(calls[i], step)
            IN /\ calls' = [calls EXCEPT ![i] = next]
               /\ channel' = IF step.kind = "sent"
                             THEN Append(channel, Request(ExportCommand, step.uri, i))
                             ELSE channel
               /\ opened' = IF next.pc = "awaitOpen"
                            THEN Append(opened, OpenAction(PdfUri(calls[i].uri), i))
                            ELSE opened
    /\ UNCHANGED <<locatorVars, sessionVars, activeEditor, edits>>
    /\ UNCHANGED <<callLimit, processEnv, serverEnv>>

\* The server's reply to the export request of show-pdf call i; the finally
\* block then calls vscode.open.
ExportReply(i, ok) ==
    /\ calls[i].pc = "awaitExport"
    /\ calls' = [calls EXCEPT ![i] =
                    WithOpen([@ EXCEPT !.exportResult = IF ok THEN "ok" ELSE "failed"])]
    /\ opened' = Append(opened, OpenAction(PdfUri(calls[i].uri), i))
    /\ UNCHANGED <<locatorVars, sessionVars, channel, activeEditor, edits>>
    /\ UNCHANGED <<callLimit, processEnv, serverEnv>>

\* A show-pdf that reports only what its vscode.open did.
ShowPdfResultSwallowing(exportResult, openOk) ==
    IF ~openOk THEN "failed" ELSE "ok"

\* How commandShowPdf completes once vscode.open has settled: an exception
\* thrown in the catch block is rethrown after a finally block that completes
\* normally; a throw inside finally replaces it.
ShowPdfResult(exportResult, openOk) ==
    IF ~openOk THEN "failed"
    ELSE IF exportResult = "failed" THEN "failed"
    ELSE "ok"

OpenDone(i, ok) ==
    /\ calls[i].pc = "awaitOpen"
    /\ calls' = [calls EXCEPT ![i].pc = "done",
                              ![i].openResult = IF ok THEN "ok" ELSE "failed",
                              ![i].result = ShowPdfResult(calls[i].exportResult, ok)]
    /\ UNCHANGED <<locatorVars, sessionVars, channel, activeEditor, opened, edits>>
    /\ UNCHANGED <<callLimit, processEnv, serverEnv>>

----------------------------------------------------------------------------
(* Host events *)

\* The user focuses another editor, or none.
EditorChange ==
    /\ activation # "none"
    /\ \E e \in ({NoEditor} \cup Docs) \ {activeEditor} : activeEditor' = e
    /\ UNCHANGED <<locatorVars, sessionVars, channel, calls, opened, edits>>
    /\ UNCHANGED <<callLimit, processEnv, serverEnv>>

\* The settings the user switches between while the extension runs.
EditableConfigs ==
    {[serverPath |-> Undefined, exportPdf |-> "onSave"],
     [serverPath |-> "/opt/custom/typst-lsp", exportPdf |-> "onType"]}

\* What the onDidChangeConfiguration listener does with one event: nothing when
\* it is not subscribed; otherwise client?.sendNotification(...) is awaited, and
\* its rejection rejects the listener's promise.
ListenerOutcome(on, cl, state) ==
    IF ~on THEN "notSubscribed" ELSE SendVia(cl, state)

\* A listener that sends the configuration object it captured before the edit.
ConfigChangeStale ==
    /\ edits < MaxEdits
    /\ edits' = edits + 1
    /\ \E c \in EditableConfigs \ {config} : config' = c
    /\ channel' = IF ListenerOutcome(listening, client, sessionState) = "sent"
                  THEN Append(channel, Notification(config))
                  ELSE channel
    /\ UNCHANGED <<platform, spawnEnv, probeLog, resolution, sessionVars, calls,
                   activeEditor, opened>>
    /\ UNCHANGED <<callLimit, processEnv, serverEnv>>

\* A listener that resolves the server again and restarts the session when the
\* settings change.
ConfigChangeRestart ==
    /\ edits < MaxEdits
    /\ edits' = edits + 1
    /\ \E c \in EditableConfigs \ {config} : config' = c
    /\ IF listening /\ client = "client"
       THEN /\ resolution' = getServer(config', platform, spawnEnv)
            /\ probeLog' = probeLog \o resolution'.probes
            /\ sessionState' = "Starting"
            /\ launches' = launches + 1
       ELSE UNCHANGED <<resolution, probeLog, sessionState, launches>>
    /\ UNCHANGED <<platform, spawnEnv, activation, client, registered, listening,
                   shown, channel, calls, activeEditor, opened>>
    /\ UNCHANGED <<callLimit, processEnv, serverEnv>>

\* A settings edit; the onDidChangeConfiguration listener, when subscribed,
\* reads the configuration and sends it.
ConfigChange ==
    /\ edits < MaxEdits
    /\ edits' = edits + 1
    /\ \E c \in EditableConfigs \ {config} : config' = c
    /\ channel' = IF ListenerOutcome(listening, client, sessionState) = "sent"
                  THEN Append(channel, Notification(config'))
                  ELSE channel
    /\ UNCHANGED <<platform, spawnEnv, probeLog, resolution, sessionVars, calls,
                   activeEditor, opened>>
    /\ UNCHANGED <<callLimit, processEnv, serverEnv>>

----------------------------------------------------------------------------
(* Specifications *)

NotCalled == [threw |-> FALSE, path |-> "", message |-> <<>>, probes |-> <<>>]

CandidatePaths(plat) == OverridePaths \cup {BundledPath(plat), BinaryName(plat)}

Exits(status) == [thrown |-> <<>>, status |-> <<status>>, error |-> <<>>]

NotFound == [thrown |-> <<>>, status |-> <<>>, error |-> <<"spawnSync ENOENT">>]

InitRest ==
    /\ probeLog = <<>>
    /\ resolution = NotCalled
    /\ activation = "none"
    /\ client = "undefined"
    /\ sessionState = "Stopped"
    /\ launches = 0
    /\ registered = {}
    /\ listening = FALSE
    /\ shown = <<>>
    /\ channel = <<>>
    /\ calls = <<>>
    /\ opened = <<>>
    /\ edits = 0
    /\ serverEnv = <<>>

\* The environments the extension host may run in: with or without a search
\* path, and with or without a RUST_BACKTRACE of the user's own.
ParentEnvs ==
    {EmptyObject,
     [PATH |-> "/usr/bin"],
     [RUST_BACKTRACE |-> "0"],
     [PATH |-> "/usr/bin", RUST_BACKTRACE |-> "0"]}

\* The extension in its host: a bundled server that works or is missing.
Init ==
    /\ config \in [serverPath : {Undefined}, exportPdf : {"onSave"}]
    /\ platform = "linux"
    /\ spawnEnv \in {[p \in CandidatePaths(platform) |-> Exits(0)],
                     [p \in CandidatePaths(platform) |-> NotFound]}
    /\ activeEditor = NoEditor
    /\ callLimit = MaxCalls
    /\ processEnv = [PATH |-> "/usr/bin"]
    /\ InitRest

Next ==
    \/ Activate
    \/ ChannelEstablished
    \/ LaunchFails
    \/ Deactivate
    \/ ProcessExited
    \/ InvokeExport
    \/ InvokeClearCache
    \/ InvokeShowPdf
    \/ \E i \in 1..Len(calls), ok \in BOOLEAN : Reply(i, ok)
    \/ \E i \in 1..Len(calls), exists \in BOOLEAN : StatDone(i, exists)
    \/ \E i \in 1..Len(calls), ok \in BOOLEAN : ExportReply(i, ok)
    \/ \E i \in 1..Len(calls), ok \in BOOLEAN : OpenDone(i, ok)
    \/ EditorChange
    \/ ConfigChange

Spec == Init /\ [][Next]_vars

\* The locator alone: any configuration, any platform and any behaviour of the
\* candidate executables; getServer is called once.
InitLocator ==
    /\ config \in [serverPath : ServerPathValues, exportPdf : {"onSave"}]
    /\ platform \in Platforms
    /\ spawnEnv \in [CandidatePaths(platform) -> SpawnResults]
    /\ activeEditor = NoEditor
    /\ callLimit = 0
    /\ processEnv = [PATH |-> "/usr/bin"]
    /\ InitRest

Resolve ==
    /\ probeLog = <<>>
    /\ resolution' = getServer(config, platform, spawnEnv)
    /\ probeLog' = resolution'.probes
    /\ UNCHANGED <<config, platform, spawnEnv, sessionVars, commandVars>>
    /\ UNCHANGED <<callLimit, processEnv, serverEnv>>

NextLocator == Resolve

SpecLocator == InitLocator /\ [][NextLocator]_vars

\* Overlapping command invocations on one document, from activation on: the
\* user keeps one document in the active editor and invokes commands without
\* waiting for their replies, and may edit the settings meanwhile.
InitCommands ==
    /\ config \in [serverPath : {Undefined}, exportPdf : {"onSave"}]
    /\ platform = "linux"
    /\ spawnEnv = [p \in CandidatePaths(platform) |-> Exits(0)]
    /\ activeEditor = DocA
    /\ callLimit = MaxOverlap
    /\ processEnv = [PATH |-> "/usr/bin"]
    /\ InitRest

NextCommands ==
    \/ Activate
    \/ ChannelEstablished
    \/ InvokeExport
    \/ InvokeClearCache
    \/ InvokeShowPdf
    \/ \E i \in 1..Len(calls), ok \in BOOLEAN : Reply(i, ok)
    \/ \E i \in 1..Len(calls), exists \in BOOLEAN : StatDone(i, exists)
    \/ \E i \in 1..Len(calls), ok \in BOOLEAN : ExportReply(i, ok)
    \/ \E i \in 1..Len(calls), ok \in BOOLEAN : OpenDone(i, ok)
    \/ ConfigChange

SpecCommands == InitCommands /\ [][NextCommands]_vars

\* The lifecycle alone, on either platform, with a server that works where it
\* is bundled, only on the search path, or nowhere; the server process exits
\* once it has been asked to stop.
InitLifecycle ==
    /\ config \in [serverPath : {Undefined}, exportPdf : {"onSave"}]
    /\ platform \in Platforms
    /\ spawnEnv \in {[p \in CandidatePaths(platform) |-> Exits(0)],
                     [p \in CandidatePaths(platform) |->
                         IF p = BundledPath(platform) THEN NotFound ELSE Exits(0)],
                     [p \in CandidatePaths(platform) |-> NotFound]}
    /\ activeEditor = NoEditor
    /\ callLimit = 0
    /\ processEnv \in ParentEnvs
    /\ InitRest

NextLifecycle ==
    \/ Activate
    \/ ChannelEstablished
    \/ LaunchFails
    \/ Deactivate
    \/ ProcessExited
    \/ EditorChange
    \/ ConfigChange

SpecLifecycle ==
    InitLifecycle /\ [][NextLifecycle]_vars /\ WF_vars(ProcessExited)

\* show-pdf on any document: the user has one document in the active editor,
\* whatever its name, and invokes show-pdf once the extension is activated.
InitArtifact ==
    /\ config \in [serverPath : {Undefined}, exportPdf : {"onSave"}]
    /\ platform = "linux"
    /\ spawnEnv = [p \in CandidatePaths(platform) |-> Exits(0)]
    /\ activeEditor \in SourceIdentifiers
    /\ callLimit = MaxCalls
    /\ processEnv = [PATH |-> "/usr/bin"]
    /\ InitRest

NextArtifact ==
    \/ Activate
    \/ ChannelEstablished
    \/ InvokeShowPdf
    \/ \E i \in 1..Len(calls), exists \in BOOLEAN : StatDone(i, exists)
    \/ \E i \in 1..Len(calls), ok \in BOOLEAN : ExportReply(i, ok)
    \/ \E i \in 1..Len(calls), ok \in BOOLEAN : OpenDone(i, ok)

SpecArtifact == InitArtifact /\ [][NextArtifact]_vars

----------------------------------------------------------------------------
(* Properties of the locator (checked under SpecLocator) *)

\* getServer has been called.
Resolved == probeLog # <<>>

\* The probe of `path` started and exited with status 0.
ProbeSucceeds(path) ==
    /\ spawnEnv[path].thrown = <<>>
    /\ spawnEnv[path].status = <<0>>

OverrideConfigured == config.serverPath \in OverridePaths

\* `sub` occurs in `str` as a contiguous run of tokens.
Contains(str, sub) ==
    \E k \in 1..(Len(str) - Len(sub) + 1) : SubSeq(str, k, k + Len(sub) - 1) = sub

EndsWith(str, sub) ==
    /\ Len(sub) <= Len(str)
    /\ SubSeq(str, Len(str) - Len(sub) + 1, Len(str)) = sub

Sources == {probeLog[i].source : i \in 1..Len(probeLog)}

\* C1: with a non-empty override whose probe fails, getServer throws an error
\* that names the override path and ends with the override's diagnostic; no path
\* is returned and neither the bundled path nor the bare name is probed.
C1_InvalidOverrideFails ==
    (Resolved /\ OverrideConfigured /\ ~ProbeSucceeds(config.serverPath)) =>
        /\ resolution.threw
        /\ resolution.path = ""
        /\ config.serverPath \in Range(resolution.message)
        /\ probeLog[1].message # <<>>
        /\ EndsWith(resolution.message, probeLog[1].message)
        /\ Sources = {"UserConfigured"}
        /\ Len(probeLog) = 1

C1_Witness ==
    /\ Resolved
    /\ config.serverPath = "/opt/custom/typst-lsp"
    /\ ~ProbeSucceeds(config.serverPath)
    /\ ProbeSucceeds(BundledPath(platform))
    /\ ProbeSucceeds(BinaryName(platform))
    /\ resolution.threw

\* C2: with an override whose probe exits with status 0, getServer returns
\* exactly the override path after that one probe; the bundled path and the bare
\* name are not probed.
C2_ValidOverrideReturned ==
    (Resolved /\ OverrideConfigured /\ ProbeSucceeds(config.serverPath)) =>
        /\ ~resolution.threw
        /\ resolution.path = config.serverPath
        /\ Len(probeLog) = 1
        /\ probeLog[1].source = "UserConfigured"
        /\ probeLog[1].path = config.serverPath

C2_Witness ==
    /\ Resolved
    /\ config.serverPath = "/opt/custom/typst-lsp"
    /\ ProbeSucceeds(config.serverPath)
    /\ ProbeSucceeds(BundledPath(platform))
    /\ resolution.path = config.serverPath

\* C3: without an override, the bundled path is probed first and the bare name
\* second, only after the bundled probe failed; when the bundled probe exits
\* with status 0 the bundled path is returned and the bare name is not probed.
C3_BundledFirst ==
    (Resolved /\ ~OverrideConfigured) =>
        /\ probeLog[1].source = "Bundled"
        /\ probeLog[1].path = BundledPath(platform)
        /\ Len(probeLog) <= 2
        /\ Len(probeLog) = 2 =>
              /\ ~ProbeSucceeds(BundledPath(platform))
              /\ probeLog[2].source = "OnSearchPath"
              /\ probeLog[2].path = BinaryName(platform)
        /\ ProbeSucceeds(BundledPath(platform)) =>
              /\ ~resolution.threw
              /\ resolution.path = BundledPath(platform)
              /\ Len(probeLog) = 1

C3_Witness ==
    /\ Resolved
    /\ ~OverrideConfigured
    /\ ProbeSucceeds(BundledPath(platform))
    /\ ProbeSucceeds(BinaryName(platform))
    /\ resolution.path = BundledPath(platform)

\* C4: without an override, when the bundled probe fails and the probe of the
\* bare name exits with status 0, getServer returns the bare name.
C4_FallsBackToPath ==
    (/\ Resolved
     /\ ~OverrideConfigured
     /\ ~ProbeSucceeds(BundledPath(platform))
     /\ ProbeSucceeds(BinaryName(platform))) =>
        /\ ~resolution.threw
        /\ resolution.path = BinaryName(platform)

C4_Witness ==
    /\ Resolved
    /\ ~OverrideConfigured
    /\ ~ProbeSucceeds(BundledPath(platform))
    /\ ProbeSucceeds(BinaryName(platform))
    /\ resolution.path = BinaryName(platform)
    /\ Len(probeLog) = 2

\* C5: without an override, when both probes fail, getServer throws one error
\* whose message holds "Bundled: " followed by the bundled probe's diagnostic
\* and "In PATH: " followed by the bare name's diagnostic; no path is returned.
C5_AggregatedError ==
    (/\ Resolved
     /\ ~OverrideConfigured
     /\ ~ProbeSucceeds(BundledPath(platform))
     /\ ~ProbeSucceeds(BinaryName(platform))) =>
        /\ resolution.threw
        /\ resolution.path = ""
        /\ Len(probeLog) = 2
        /\ BundledPath(platform) \in Range(probeLog[1].message)
        /\ BinaryName(platform) \in Range(probeLog[2].message)
        /\ Contains(resolution.message, <<"Bundled: ">> \o probeLog[1].message)
        /\ Contains(resolution.message, <<"In PATH: ">> \o probeLog[2].message)

C5_Witness ==
    /\ Resolved
    /\ ~OverrideConfigured
    /\ spawnEnv[BundledPath(platform)].error # <<>>
    /\ spawnEnv[BinaryName(platform)].status = <<1>>
    /\ resolution.threw

\* What a failed probe has to report: its exit status, the error spawnSync
\* returned, the error spawnSync threw.
StatusText(result) ==
    IF result.thrown = <<>> /\ result.status # <<>>
    THEN {ToString(result.status[1])} ELSE {}

ErrorText(result) ==
    IF result.thrown # <<>>
    THEN {IF result.thrown[1] = "Error" THEN result.thrown[2]
          ELSE JSONStringify(result.thrown[2])}
    ELSE IF result.error # <<>> THEN {result.error[1]}
    ELSE {}

\* C6 as claimed: a candidate is valid exactly when its probe started and
\* exited with status 0, and every invalid result carries a diagnostic with the
\* attempted command plus the status or the error text.
C6_Original ==
    \A i \in 1..Len(probeLog) :
        LET p == probeLog[i]
            result == spawnEnv[p.path]
        IN /\ p.valid <=> ProbeSucceeds(p.path)
           /\ ~p.valid =>
                 /\ p.path \in Range(p.message)
                 /\ (StatusText(result) \cup ErrorText(result))
                        \cap Range(p.message) # {}

\* C6 as amended: a candidate is valid exactly when its probe started and
\* exited with status 0; an invalid result carries a diagnostic with the
\* attempted command, the status when the process exited with one and the error
\* text when spawnSync returned or threw an error; a probe that ended with
\* neither (null status, no error) yields the command alone.
C6_Validation ==
    \A i \in 1..Len(probeLog) :
        LET p == probeLog[i]
            result == spawnEnv[p.path]
        IN /\ p.valid <=> ProbeSucceeds(p.path)
           /\ ~p.valid =>
                 /\ p.path \in Range(p.message)
                 /\ StatusText(result) \subseteq Range(p.message)
                 /\ ErrorText(result) \subseteq Range(p.message)
                 /\ (StatusText(result) \cup ErrorText(result) = {}) =>
                        p.message = <<"Failed to launch '", p.path, "'", ":\n\t">>

C6_Witness ==
    \E i \in 1..Len(probeLog) :
        /\ ~probeLog[i].valid
        /\ spawnEnv[probeLog[i].path] =
              [thrown |-> <<>>, status |-> <<>>, error |-> <<>>]

----------------------------------------------------------------------------
(* Properties of the session and the commands (checked under Spec) *)

Sent(i) == {k \in 1..Len(channel) : channel[k].call = i}

Opens(i) == {k \in 1..Len(opened) : opened[k].call = i}

\* C7: a request or a configuration notification is put on the channel only
\* in a step that starts with the session existing and Running.
C7_SendOnlyWhileRunning ==
    [][channel' # channel => (client = "client" /\ sessionState = "Running")]_vars

C7_Witness ==
    /\ \E k \in 1..Len(channel) : channel[k].kind = "request"
    /\ \E k \in 1..Len(channel) : channel[k].kind = "notification"

\* C8: a command that reaches its send with an active document while the
\* session is not Running fails at once, the failure reaching its caller
\* (the export step of show-pdf fails, and show-pdf then fails too); and no
\* invocation with a document completes as a success without a request of its
\* own on the channel.
C8_NoSilentSuccess ==
    /\ [][\A i \in 1..Len(calls') :
            LET simple == /\ i > Len(calls)
                          /\ calls'[i].cmd # "showPdf"
                          /\ calls'[i].uri # NoEditor
                export == /\ i <= Len(calls)
                          /\ calls[i].pc = "stat"
                          /\ calls'[i].exportResult \notin {"none", "noEditor"}
            IN sessionState # "Running" =>
                 /\ simple => (calls'[i].pc = "done" /\ calls'[i].result = "failed")
                 /\ export => calls'[i].exportResult = "failed"]_vars
    /\ [](\A i \in 1..Len(calls) :
            /\ (calls[i].cmd # "showPdf" /\ calls[i].uri # NoEditor
                    /\ calls[i].result = "ok") => Sent(i) # {}
            /\ calls[i].exportResult = "ok" => Sent(i) # {}
            /\ (calls[i].exportResult = "failed" /\ calls[i].pc = "done")
                    => calls[i].result = "failed")

C8_Witness ==
    /\ sessionState \in {"Stopped", "Starting", "Stopping"}
    /\ \E i \in 1..Len(calls) :
          /\ calls[i].uri # NoEditor
          /\ calls[i].pc = "done"
          /\ calls[i].result = "failed"
          /\ Sent(i) = {}

C10_Original ==
    [][\A i \in 1..Len(calls) :
         (/\ calls[i].cmd = "showPdf"
          /\ calls[i].pc = "stat"
          /\ calls'[i].pc # "stat"
          /\ calls'[i].exportResult # "none"
          /\ sessionState = "Running") =>
            /\ channel' = Append(channel, Request(ExportCommand, calls[i].uri, i))
            /\ opened' = opened]_vars

\* The artifact names of the two documents, written out.
PdfA == <<"f", ":", "/", "w", "/", "a", ".", "p", "d", "f">>
PdfB == <<"f", ":", "/", "w", "/", "b", ".", "p", "d", "f">>

Artifact(uri) == IF uri = DocA THEN PdfA ELSE PdfB

\* Invocation i is a show-pdf call on a document.
ShowPdfCall(i) == calls[i].cmd = "showPdf" /\ calls[i].uri # NoEditor

\* Invocation i has opened the viewer once, for its document's artifact, beside
\* the source editor.
OpenedOnce(i) ==
    /\ Cardinality(Opens(i)) = 1
    /\ \A k \in Opens(i) :
          /\ opened[k].uri = Artifact(calls[i].uri)
          /\ opened[k].column = "Beside"

\* The stat of show-pdf call i succeeded: the call is past its stat and never
\* entered the export step.
StatSucceeded(i) ==
    /\ ShowPdfCall(i)
    /\ calls[i].pc \in {"awaitOpen", "done"}
    /\ calls[i].exportResult = "none"

\* C11: a show-pdf invocation on a document whose artifact exists (the stat
\* succeeds) sends no export request and opens the viewer exactly once, for
\* that artifact, beside the source editor; nothing is opened while the stat is
\* pending.
C11_ExistingArtifactOpened ==
    \A i \in 1..Len(calls) :
        /\ (ShowPdfCall(i) /\ calls[i].pc = "stat") =>
              (Sent(i) = {} /\ Opens(i) = {})
        /\ StatSucceeded(i) => (Sent(i) = {} /\ OpenedOnce(i))

C11_Witness ==
    /\ sessionState = "Running"
    /\ \E i \in 1..Len(calls) :
          /\ StatSucceeded(i)
          /\ calls[i].uri = DocA
          /\ calls[i].pc = "done"
          /\ calls[i].result = "ok"
          /\ Sent(i) = {}
          /\ Cardinality(Opens(i)) = 1

\* C12: a show-pdf invocation whose stat failed opens the viewer exactly once
\* whether its export step succeeded or failed, and only after the export step
\* has settled: nothing is opened while the export request is pending, and an
\* invocation whose export failed has reached the open step.
C12_OpenAfterFailedExport ==
    \A i \in 1..Len(calls) :
        ShowPdfCall(i) =>
            /\ calls[i].pc = "awaitExport" =>
                  (calls[i].exportResult = "pending" /\ Opens(i) = {})
            /\ calls[i].exportResult \in {"ok", "failed", "noEditor"} =>
                  (calls[i].pc \in {"awaitOpen", "done"} /\ OpenedOnce(i))

C12_Witness ==
    \E i \in 1..Len(calls) :
        /\ ShowPdfCall(i)
        /\ calls[i].exportResult = "failed"
        /\ Sent(i) # {}
        /\ calls[i].pc = "done"
        /\ Cardinality(Opens(i)) = 1

\* C13: an invocation of export-current-pdf, show-pdf or clear-cache made with
\* no active document completes at once without an error, puts no request on the
\* channel and opens nothing; show-pdf does not reach its stat.
C13_NoEditorNoOp ==
    \A i \in 1..Len(calls) :
        calls[i].uri = NoEditor =>
            /\ calls[i].pc = "done"
            /\ calls[i].result = "ok"
            /\ calls[i].exportResult = "none"
            /\ Sent(i) = {}
            /\ Opens(i) = {}

C13_Witness ==
    /\ sessionState = "Running"
    /\ activeEditor = NoEditor
    /\ \E i \in 1..Len(calls) :
          /\ calls[i].uri = NoEditor
          /\ calls[i].cmd \in Commands
          /\ calls[i].result = "ok"
          /\ channel = <<>>

\* C14: a configuration-change event handled while the session is Running puts
\* exactly one message on the channel, a configuration-changed notification
\* whose settings are the configuration as it is after the edit (the value read
\* when the event is handled), not the value of an earlier event or of
\* activation.
C14_FreshConfigurationSent ==
    [][(edits' # edits /\ sessionState = "Running") =>
          /\ Len(channel') = Len(channel) + 1
          /\ SubSeq(channel', 1, Len(channel)) = channel
          /\ channel'[Len(channel')].kind = "notification"
          /\ channel'[Len(channel')].method = "workspace/didChangeConfiguration"
          /\ channel'[Len(channel')].settings = <<config'>>
          /\ config' # config]_vars

C14_Witness ==
    /\ sessionState = "Running"
    /\ edits = 1
    /\ config.serverPath = "/opt/custom/typst-lsp"
    /\ resolution.path = BundledPath(platform)
    /\ Len(channel) = 1
    /\ channel[1].kind = "notification"
    /\ channel[1].settings = <<config>>

\* C15 as claimed: a configuration-change event handled while the session is
\* not Running makes no send attempt (the listener is not subscribed, or it
\* skips the send) and so raises no error, and puts nothing on the channel.
C15_Original ==
    [][(edits' # edits /\ sessionState # "Running") =>
          /\ ListenerOutcome(listening, client, sessionState)
                \in {"notSubscribed", "skipped"}
          /\ channel' = channel]_vars

\* C16: a configuration-change event leaves the session state, the session
\* instance, the number of launched server processes, the activation, the
\* registrations and the outcome of the server resolution as they were, also
\* when the edit changes the server path override.
C16_NoRestartOnConfigChange ==
    [][edits' # edits =>
          /\ UNCHANGED <<client, sessionState, launches, activation, registered,
                         listening, shown>>
          /\ UNCHANGED <<probeLog, resolution>>]_vars

C16_Witness ==
    /\ edits >= 1
    /\ client = "client"
    /\ sessionState = "Running"
    /\ launches = 1
    /\ config.serverPath = "/opt/custom/typst-lsp"
    /\ resolution.path = BundledPath(platform)
    /\ Len(probeLog) = 1
    /\ \E k \in 1..Len(channel) : channel[k].settings = <<config>>

\* C17: wherever deactivate() may be called, a call that finds no session or a
\* Stopped session does not throw and leaves the session state as it is, and a
\* second call right after a first one does not throw and changes nothing the
\* first one left.
C17_StopIdempotent ==
    activation # "none" =>
        LET once == DeactivateOutcome(client, sessionState)
            twice == DeactivateOutcome(client, once.state)
        IN /\ (client = "undefined" \/ sessionState = "Stopped") =>
                 (~once.threw /\ once.state = sessionState)
           /\ ~once.threw => (~twice.threw /\ twice.state = once.state)

C17_Witness ==
    /\ client = "client"
    /\ activation = "resolved"
    /\ launches = 1
    /\ sessionState = "Stopped"
    /\ DeactivateOutcome(client, sessionState).state = "Stopped"

\* C19 as claimed: once the launch of the server has failed, the session is
\* Stopped, the activation is rejected and the error has been shown, and no
\* registered command handler can reach the session that never started.
C19_Original ==
    (activation = "rejected" /\ launches >= 1) =>
        /\ sessionState = "Stopped"
        /\ \E k \in 1..Len(shown) : Contains(shown[k], LaunchError)
        /\ (registered = {} \/ client = "undefined")

\* C20: once getServer has thrown during activation, the activation is
\* rejected, one error message has been shown that holds the error's text and
\* with it the diagnostic of every candidate probed, no session object exists,
\* no server process was launched, no command handler and no listener is
\* registered, and nothing has been sent.
C20_ResolveFailureAbortsActivation ==
    resolution.threw =>
        /\ activation = "rejected"
        /\ client = "undefined"
        /\ sessionState = "Stopped"
        /\ launches = 0
        /\ registered = {}
        /\ ~listening
        /\ Len(shown) = 1
        /\ Contains(shown[1], resolution.message)
        /\ probeLog # <<>>
        /\ \A k \in 1..Len(probeLog) :
              /\ ~probeLog[k].valid
              /\ probeLog[k].message # <<>>
              /\ Contains(shown[1], probeLog[k].message)
        /\ channel = <<>>
        /\ calls = <<>>

C20_Witness ==
    /\ resolution.threw
    /\ activation = "rejected"
    /\ Len(probeLog) = 2
    /\ Len(shown) = 1
    /\ client = "undefined"

\* stop() has been requested on the session that was Running: it is Stopping,
\* or Stopped again after it had been Running.
StopRequested ==
    \/ sessionState = "Stopping"
    \/ (sessionState = "Stopped" /\ activation = "resolved")

\* C21 as claimed: once stop() has been requested at deactivation, the session
\* reference is cleared, so that a command invoked later skips its send.
C21_Original ==
    StopRequested =>
        /\ client = "undefined"
        /\ SendVia(client, sessionState) = "skipped"

\* C26 as claimed: a show-pdf invocation whose export request failed and whose
\* open-viewer action succeeded completes as a success.
C26_Original ==
    \A i \in 1..Len(calls) :
        (/\ ShowPdfCall(i)
         /\ calls[i].pc = "done"
         /\ calls[i].exportResult = "failed"
         /\ calls[i].openResult = "ok") => calls[i].result = "ok"

\* C26 as amended: a completed show-pdf invocation has failed exactly when its
\* export step or its open-viewer action failed, so a failed export reaches the
\* caller also when the open succeeded; only the failure of the stat is
\* swallowed (it starts the export step).  An export-current-pdf or clear-cache
\* invocation on a document that completed without a request of its own on
\* the channel has failed.
C26_FailuresReachCaller ==
    \A i \in 1..Len(calls) :
        calls[i].pc = "done" =>
            /\ ShowPdfCall(i) =>
                  /\ calls[i].openResult \in {"ok", "failed"}
                  /\ calls[i].result = "failed" <=>
                        (calls[i].exportResult = "failed"
                             \/ calls[i].openResult = "failed")
                  /\ calls[i].exportResult \in {"none", "ok", "failed", "noEditor"}
            /\ (calls[i].cmd # "showPdf" /\ calls[i].uri # NoEditor
                    /\ Sent(i) = {}) => calls[i].result = "failed"

C26_Witness ==
    \E i \in 1..Len(calls) :
        /\ ShowPdfCall(i)
        /\ calls[i].pc = "done"
        /\ calls[i].exportResult = "failed"
        /\ calls[i].openResult = "ok"
        /\ calls[i].result = "failed"
        /\ Sent(i) # {}
        /\ Opens(i) # {}

----------------------------------------------------------------------------
(* Properties of the commands (checked under SpecCommands) *)

\* The execute-workspace-command request for `command` with `uri` as its single
\* argument, sent by invocation i.
ExecuteCommand(command, uri, i) ==
    [kind |-> "request", method |-> "workspace/executeCommand",
     command |-> command, arguments |-> <<uri>>, settings |-> <<>>, call |-> i]

\* In this step the handler `cmd` is invoked with a document in the active
\* editor and the session Running.
InvokedWhileRunning(i, cmd) ==
    /\ i = Len(calls) + 1
    /\ Len(calls') = i
    /\ calls'[i].cmd = cmd
    /\ activeEditor # NoEditor
    /\ sessionState = "Running"

\* A step as the handler `cmd` takes it: invoked on a document with the session
\* Running it sends the one request `command` for that document and waits for
\* its reply; the reply ends the invocation, as a success or as a failure, and
\* sends nothing.
SingleRequestStep(cmd, command) ==
    /\ InvokedWhileRunning(Len(calls) + 1, cmd) =>
          /\ channel' = Append(channel,
                ExecuteCommand(command, activeEditor, Len(calls) + 1))
          /\ calls'[Len(calls')].uri = activeEditor
          /\ calls'[Len(calls')].pc = "awaitReply"
          /\ calls'[Len(calls')].result = "pending"
    /\ \A i \in 1..Len(calls) :
          (calls[i].cmd = cmd /\ calls[i].pc = "awaitReply") =>
              \/ calls'[i] = calls[i]
              \/ /\ calls'[i].pc = "done"
                 /\ calls'[i].result \in {"ok", "failed"}
                 /\ channel' = channel

\* At no time is there more than one request of an invocation of `cmd` on the
\* channel, and it is the request `command` for the invocation's document.
SingleRequestHeld(cmd, command) ==
    \A i \in 1..Len(calls) :
        calls[i].cmd = cmd =>
           /\ Cardinality(Sent(i)) <= 1
           /\ calls[i].pc = "awaitReply" => Cardinality(Sent(i)) = 1
           /\ \A k \in Sent(i) :
                 channel[k] = ExecuteCommand(command, calls[i].uri, i)

\* C22: an export-current-pdf invocation with an active document and a Running
\* session sends exactly one workspace/executeCommand request with the command
\* typst-lsp.doPdfExport and the document's identifier as its single argument;
\* the reply ends the invocation, a failed one as a failure, and no further
\* request is sent for it.
C22_ExportSingleRequest ==
    /\ [][SingleRequestStep("exportCurrentPdf", "typst-lsp.doPdfExport")]_vars
    /\ [](SingleRequestHeld("exportCurrentPdf", "typst-lsp.doPdfExport"))

C22_Witness ==
    \E i \in 1..Len(calls) :
        /\ calls[i].cmd = "exportCurrentPdf"
        /\ calls[i].pc = "done"
        /\ calls[i].result = "failed"
        /\ Cardinality(Sent(i)) = 1
        /\ \E k \in Sent(i) : channel[k].arguments = <<DocA>>

\* C23: a clear-cache invocation with an active document and a Running session
\* sends exactly one workspace/executeCommand request with the command
\* typst-lsp.doClearCache and the document's identifier as its single argument;
\* the reply ends the invocation, a failed one as a failure, as for export.
C23_ClearCacheSingleRequest ==
    /\ [][SingleRequestStep("clearCache", "typst-lsp.doClearCache")]_vars
    /\ [](SingleRequestHeld("clearCache", "typst-lsp.doClearCache"))

C23_Witness ==
    /\ \E i \in 1..Len(calls) :
          /\ calls[i].cmd = "clearCache"
          /\ calls[i].pc = "done"
          /\ calls[i].result = "ok"
          /\ \E k \in Sent(i) : channel[k].command = "typst-lsp.doClearCache"
    /\ \E i \in 1..Len(calls) :
          /\ calls[i].cmd = "clearCache"
          /\ calls[i].pc = "done"
          /\ calls[i].result = "failed"
          /\ Sent(i) # {}

\* The requests on the channel.
Requests == {k \in 1..Len(channel) : channel[k].kind = "request"}

\* The invocations that are suspended on a reply of the server.
AwaitingReply == {i \in 1..Len(calls) : calls[i].pc \in {"awaitReply", "awaitExport"}}

\* C24: an invocation of export or clear-cache on a document with the session
\* Running sends its request in the step in which it is invoked, and the export
\* step of show-pdf in the step in which its stat fails, whatever earlier
\* invocations are still awaiting their replies; every invocation awaiting a
\* reply has exactly one request of its own on the channel, so k invocations
\* issued before any reply arrives have sent k requests.
C24_IndependentInvocations ==
    /\ [][/\ \A cmd \in {"exportCurrentPdf", "clearCache"} :
                InvokedWhileRunning(Len(calls) + 1, cmd) =>
                    /\ Len(channel') = Len(channel) + 1
                    /\ channel'[Len(channel')].kind = "request"
                    /\ channel'[Len(channel')].call = Len(calls) + 1
                    /\ channel'[Len(channel')].arguments = <<activeEditor>>
           /\ \A i \in 1..Len(calls) :
                (/\ calls[i].pc = "stat"
                 /\ calls'[i].exportResult # "none"
                 /\ sessionState = "Running") =>
                    channel' = Append(channel,
                        ExecuteCommand("typst-lsp.doPdfExport", calls[i].uri, i))]_vars
    /\ [](/\ \A i \in AwaitingReply : Cardinality(Sent(i)) = 1
          /\ Cardinality(Requests) >= Cardinality(AwaitingReply)
          /\ \A i \in 1..Len(calls) : Cardinality(Sent(i)) <= 1)

C24_Witness ==
    /\ Len(calls) >= 2
    /\ AwaitingReply = 1..Len(calls)
    /\ Cardinality(Requests) = Len(calls)
    /\ \A i \in 1..Len(calls) : calls[i].uri = DocA
    /\ calls[1].cmd = "exportCurrentPdf"
    /\ calls[2].cmd \in {"exportCurrentPdf", "showPdf"}
    /\ \A k \in Requests : channel[k].arguments = <<DocA>>

----------------------------------------------------------------------------
(* Properties of the lifecycle (checked under SpecLifecycle) *)

FourEdges ==
    {<<"Stopped", "Starting">>, <<"Starting", "Running">>,
     <<"Running", "Stopping">>, <<"Stopping", "Stopped">>}

C29_StopCompletes ==
    (sessionState = "Stopping") ~> (sessionState = "Stopped")

C29_Witness ==
    /\ sessionState = "Stopped"
    /\ activation = "resolved"
    /\ client = "client"
    /\ registered = Commands
    /\ launches = 1
    /\ platform = "win32"

\* C27: an invocation suspended on a reply stays as it is until that reply
\* arrives: no other step completes it, and the step that ends the wait of a
\* show-pdf invocation for its export is the one that settles the export and
\* opens the viewer; while the export is pending nothing has been opened for
\* the invocation and it has no result.
C27_NoTimeout ==
    /\ [][\A i \in 1..Len(calls) :
             /\ calls[i].pc = "awaitReply" =>
                   \/ calls'[i] = calls[i]
                   \/ /\ calls'[i].pc = "done"
                      /\ calls'[i].result \in {"ok", "failed"}
                      /\ UNCHANGED <<channel, opened, sessionState, client>>
             /\ calls[i].pc = "awaitExport" =>
                   \/ calls'[i] = calls[i] /\ Opens(i)' = Opens(i)
                   \/ /\ calls'[i].pc = "awaitOpen"
                      /\ calls'[i].exportResult \in {"ok", "failed"}
                      /\ calls'[i].result = "pending"
                      /\ opened' = Append(opened,
                            [uri |-> Artifact(calls[i].uri), column |-> "Beside",
                             call |-> i])
                      /\ UNCHANGED <<channel, sessionState, client>>]_vars
    /\ [](\A i \in 1..Len(calls) :
             /\ calls[i].exportResult = "pending" =>
                   (calls[i].pc = "awaitExport" /\ Opens(i) = {}
                        /\ calls[i].result = "pending" /\ Sent(i) # {})
             /\ calls[i].pc \in {"awaitReply", "awaitExport"} =>
                   calls[i].result = "pending")

C27_Witness ==
    /\ \E i \in 1..Len(calls) :
          /\ calls[i].cmd = "showPdf"
          /\ calls[i].pc = "awaitExport"
          /\ Sent(i) # {}
          /\ Opens(i) = {}
    /\ \E j \in 1..Len(calls) :
          /\ calls[j].cmd = "clearCache"
          /\ calls[j].pc = "awaitReply"

\* C30: a step of a command invocation (its call, a reply, a stat, an open)
\* or a configuration-change event leaves the session reference, the session
\* state, the launched processes, the activation and the registrations as they
\* are, whether a request succeeded or failed; and an invocation of export or
\* clear-cache on a document with the session Running sends its request also
\* when an earlier invocation has failed.
C30_SessionWrittenByLifecycleOnly ==
    [][/\ (calls' # calls \/ edits' # edits \/ opened' # opened
             \/ channel' # channel) =>
                UNCHANGED <<client, sessionState, launches, activation,
                            registered, listening, shown>>
       /\ \A cmd \in {"exportCurrentPdf", "clearCache"} :
             (/\ InvokedWhileRunning(Len(calls) + 1, cmd)
              /\ \E j \in 1..Len(calls) : calls[j].result = "failed") =>
                 /\ Len(channel') = Len(channel) + 1
                 /\ channel'[Len(channel')].call = Len(calls) + 1
                 /\ calls'[Len(calls')].pc = "awaitReply"]_vars

C30_Witness ==
    /\ sessionState = "Running"
    /\ client = "client"
    /\ Len(calls) = 2
    /\ calls[1].result = "failed"
    /\ Sent(1) # {}
    /\ calls[2].result = "ok"
    /\ Sent(2) # {}
    /\ \E k \in 1..Len(channel) : channel[k].kind = "notification"

----------------------------------------------------------------------------
(* Properties of the artifact name (checked under SpecArtifact) *)

\* The identifier `uri` with the extension of its last path segment (from that
\* segment's last dot) replaced by ".pdf", or with ".pdf" added when that
\* segment has no dot; the directories and the base name are kept.
FinalExtensionReplaced(uri) ==
    LET start == LastIndexOf(uri, "/") + 1
        segment == SubSeq(uri, start + 1, Len(uri))
        dots == {k \in 1..Len(segment) : segment[k] = "."}
        base == IF dots = {} THEN segment
                ELSE SubSeq(segment, 1, (CHOOSE k \in dots : \A j \in dots : j <= k) - 1)
    IN SubSeq(uri, 1, start) \o base \o <<".", "p", "d", "f">>

\* C31 as claimed: the artifact a show-pdf invocation opens is its document's
\* identifier with only the final extension of the last path segment replaced
\* by ".pdf", the directories and the base name unchanged, also for a last
\* segment without an extension and for directory names with a dot.
C31_Original ==
    \A k \in 1..Len(opened) :
        opened[k].uri = FinalExtensionReplaced(calls[opened[k].call].uri)

----------------------------------------------------------------------------
(* Properties of the launch environment (checked under SpecLifecycle) *)

\* C32: the environment handed over for the server process holds every
\* variable of the extension host's environment with the host's value, except
\* RUST_BACKTRACE, which is present with the value "1" whether or not the host
\* has a value of its own for it; before the launch no environment is handed
\* over.
C32_EnvironmentPassed ==
    /\ launches = 0 => serverEnv = <<>>
    /\ launches >= 1 =>
          /\ Len(serverEnv) = 1
          /\ \A name \in DOMAIN processEnv \ {"RUST_BACKTRACE"} :
                /\ name \in DOMAIN serverEnv[1]
                /\ serverEnv[1][name] = processEnv[name]
          /\ "RUST_BACKTRACE" \in DOMAIN serverEnv[1]
          /\ serverEnv[1]["RUST_BACKTRACE"] = "1"

C32_Witness ==
    /\ launches = 1
    /\ sessionState = "Running"
    /\ DOMAIN processEnv = {"PATH", "RUST_BACKTRACE"}
    /\ processEnv["RUST_BACKTRACE"] = "0"
    /\ serverEnv[1]["RUST_BACKTRACE"] = "1"
    /\ serverEnv[1]["PATH"] = "/usr/bin"

----------------------------------------------------------------------------
(* Properties of show-pdf under editor changes (checked under Spec) *)

\* C33 as claimed: every export request of a show-pdf invocation names the
\* document the invocation was made on, whose artifact was stat-ed and is the
\* one opened, also when the active editor changed while the stat was
\* suspended; and an invocation that skipped its export because no editor was
\* active opens nothing.
C33_Original ==
    \A i \in 1..Len(calls) :
        ShowPdfCall(i) =>
            /\ \A k \in Sent(i) : channel[k].arguments = <<calls[i].uri>>
            /\ \A k \in Opens(i) : opened[k].uri = PdfUri(calls[i].uri)
            /\ calls[i].exportResult = "noEditor" => Opens(i) = {}

----------------------------------------------------------------------------
(* Properties of the session reference (checked under Spec) *)

\* C34: whenever a command handler or the configuration listener is
\* registered the session reference is defined; once activation has got past
\* the server resolution the reference stays defined, after a deactivation and
\* after a failed start too; so a handler's send is never skipped for want of
\* a session: an export or clear-cache invocation on a document that
\* completed without a request of its own has failed, and a show-pdf
\* invocation whose export step succeeded has sent its request.
C34_SessionAlwaysDefined ==
    /\ (registered # {} \/ listening) =>
          /\ client = "client"
          /\ SendVia(client, sessionState) # "skipped"
          /\ ListenerOutcome(listening, client, sessionState) # "skipped"
    /\ (activation # "none" /\ ~resolution.threw) => client = "client"
    /\ client = "undefined" => (registered = {} /\ ~listening /\ calls = <<>>)
    /\ \A i \in 1..Len(calls) :
          /\ (calls[i].cmd # "showPdf" /\ calls[i].uri # NoEditor
                  /\ calls[i].pc = "done" /\ Sent(i) = {}) =>
                 calls[i].result = "failed"
          /\ calls[i].exportResult = "ok" => Sent(i) # {}

C34_Witness ==
    /\ StopRequested
    /\ client = "client"
    /\ registered = Commands
    /\ \E i \in 1..Len(calls) :
          /\ calls[i].uri # NoEditor
          /\ calls[i].pc = "done"
          /\ calls[i].result = "failed"
          /\ Sent(i) = {}

----------------------------------------------------------------------------
(* Properties of the probes (checked under SpecLocator) *)

\* C35: one call of getServer spawns exactly one probe when a non-empty
\* override is configured, and otherwise one probe when the bundled path
\* validates and two when it does not; no path is probed twice, no probe
\* follows one that validated, and the call leaves no other probe behind.
C35_ProbeCount ==
    Resolved =>
        /\ probeLog = resolution.probes
        /\ OverrideConfigured => Len(probeLog) = 1
        /\ (~OverrideConfigured /\ ProbeSucceeds(BundledPath(platform))) =>
              Len(probeLog) = 1
        /\ (~OverrideConfigured /\ ~ProbeSucceeds(BundledPath(platform))) =>
              Len(probeLog) = 2
        /\ \A i, j \in 1..Len(probeLog) :
              i # j => probeLog[i].path # probeLog[j].path
        /\ \A i \in 1..Len(probeLog) :
              ProbeSucceeds(probeLog[i].path) => i = Len(probeLog)

C35_Witness ==
    /\ Resolved
    /\ config.serverPath = Undefined
    /\ platform = "win32"
    /\ ~ProbeSucceeds(BundledPath(platform))
    /\ ProbeSucceeds("/opt/custom/typst-lsp")
    /\ Len(probeLog) = 2
    /\ resolution.threw

\* C36: with a server path override that is undefined, null or the empty
\* string, getServer probes no override and raises no error about one; it
\* probes the bundled path first and the bare name second, and its outcome
\* (the path returned or the error thrown, and the probes made) is the one it
\* has when the option is absent.
C36_EmptyOverrideIsNoOverride ==
    (Resolved /\ config.serverPath \in {Undefined, Null, EmptyString}) =>
        /\ \A k \in 1..Len(probeLog) :
              /\ probeLog[k].source # "UserConfigured"
              /\ probeLog[k].path # config.serverPath
        /\ probeLog[1].path = BundledPath(platform)
        /\ Len(probeLog) = 2 => probeLog[2].path = BinaryName(platform)
        /\ "typst-lsp.serverPath (" \notin Range(resolution.message)
        /\ resolution.threw <=>
              (~ProbeSucceeds(BundledPath(platform))
                   /\ ~ProbeSucceeds(BinaryName(platform)))
        /\ resolution =
              getServer([config EXCEPT !.serverPath = Undefined], platform, spawnEnv)

C36_Witness ==
    /\ Resolved
    /\ config.serverPath = EmptyString
    /\ ~ProbeSucceeds(BundledPath(platform))
    /\ ProbeSucceeds(BinaryName(platform))
    /\ probeLog[1].source = "Bundled"
    /\ resolution.path = BinaryName(platform)

====
